---- MODULE Spec2Model ----
(***************************************************************************)
(* Model of src/app.py: the question sequencing of QuestionManager, the    *)
(* evaluation records of EvaluationManager, the REST helper                *)
(* supabase_request, and the create, update, delete and query methods of   *)
(* the six managers over the hierarchy of tables, and the dropdowns of the *)
(* pages with the selections they remember in st.session_state, and the    *)
(* columns the update methods write, and two browser sessions whose        *)
(* question operations interleave request by request.                      *)
(*                                                                         *)
(* Every supabase_request either succeeds or returns None (status >= 400   *)
(* or an exception, app.py:52-59); each operation draws the outcome of     *)
(* each of its requests nondeterministically.  A query that orders by one  *)
(* column leaves the order of rows that tie on it to the database, so a    *)
(* listing is modelled as the set of orders the database may return.       *)
(***************************************************************************)
EXTENDS Integers, Sequences, FiniteSets, TLC

\* Bounds of the model.
MaxQid == 3
MaxSeqArg == 1
MaxOtherThread == 1
MaxEid == 2
MaxRowId == 1
MaxStoreId == 2
MaxRows == 7
NavDepth == 2
MaxNavRows == 5
MaxFieldRows == 2

\* The threads that exist (rows of question_threads); questions belong to one.
\* Thread 1 is the thread under study; thread 2 holds at most MaxOtherThread
\* questions at a time.
Threads == {1, 2}

\* sequence_number arguments a caller passes to the manager.
SeqArgs == 0..MaxSeqArg

\* sequence numbers the edit form of the questions page can send
\* (st.number_input with min_value=1).
PageSeqArgs == 1..MaxSeqArg

\* An optional argument: <<>> is Python's None, <<x>> the value x.
NoneArg == <<>>
Some(x) == <<x>>

VARIABLES
    questions,    \* table questions: question_id -> [thread, seq]
    nextQid,      \* next value of the SERIAL question_id
    last,         \* what the most recent question operation did
    interrupted,  \* the thread and table before a reorder run that crashed
    answers,      \* table answers: the answer_ids that exist
    evaluations,  \* table evaluations: evaluation_id -> [answer, dimension, score]
    nextEid,      \* next value of the SERIAL evaluation_id
    elast,        \* what the most recent evaluation operation did
    tables,       \* the six tables by level: id -> [parent, text]
    serial,       \* next value of the SERIAL id of each table
    slast,        \* what the most recent store operation did
    session_state, \* st.session_state: the remembered ids by key
    nlast,        \* what the most recent step of the pages did
    records,      \* questions, answers, evaluations: id -> the columns an update writes
    flast,        \* what the most recent operation on records did
    sessions      \* the question operation each browser session is in

qvars == <<questions, nextQid, last, interrupted>>
evars == <<answers, evaluations, nextEid, elast>>
svars == <<tables, serial, slast>>
nvars == <<session_state, nlast>>
fvars == <<records, flast>>
cvars == <<sessions>>
xvars == <<nvars, fvars, cvars>>
vars == <<questions, nextQid, last, interrupted,
          answers, evaluations, nextEid, elast,
          tables, serial, slast, session_state, nlast, records, flast,
          sessions>>

----------------------------------------------------------------------------
\* Pure helpers.

Max(S) == CHOOSE x \in S : \A y \in S : y <= x

\* The ids of the questions of thread t (filter thread_id=eq.t).
ThreadIds(qs, t) == {i \in DOMAIN qs : qs[i].thread = t}

\* The listings of the rows S in ascending sequence_number: a listing starts
\* with a row of least sequence_number and goes on with a listing of the rest.
RECURSIVE Ascending(_, _)
Ascending(qs, S) ==
    IF S = {} THEN {<<>>}
    ELSE UNION {{<<m>> \o o : o \in Ascending(qs, S \ {m})} :
                m \in {x \in S : \A y \in S : qs[x].seq <= qs[y].seq}}

\* Variant: the thread filter left out of the query.
get_by_thread_unfiltered(qs, t) == Ascending(qs, DOMAIN qs)

\* QuestionManager.get_by_thread: the rows of thread t ordered by
\* sequence_number.  The query names no second sort key, so rows with equal
\* sequence_number come in any order: the set of possible listings.
get_by_thread(qs, t) == Ascending(qs, ThreadIds(qs, t))

\* Variant: a PATCH for every position, whatever the stored number.
NeedPatch_every(qs, order) == 1..Len(order)

\* Variant: a PATCH only where the stored number is too large.
NeedPatch_above(qs, order) == {i \in 1..Len(order) : qs[order[i]].seq > i}

\* The positions of a listing for which reorder issues a PATCH
\* (row.sequence_number != idx, idx counted from 1).
NeedPatch(qs, order) == {i \in 1..Len(order) : qs[order[i]].seq # i}

\* Variant: positions counted from 0 (enumerate without the start argument).
renumber_from_zero(qs, order, applied) ==
    [id \in DOMAIN qs |->
        IF \E i \in applied : order[i] = id
        THEN [qs[id] EXCEPT !.seq = (CHOOSE i \in applied : order[i] = id) - 1]
        ELSE qs[id]]

\* The table after the PATCHes of the positions in `applied` took effect:
\* each sets sequence_number of the row listed at position i to i.
renumber(qs, order, applied) ==
    [id \in DOMAIN qs |->
        IF \E i \in applied : order[i] = id
        THEN [qs[id] EXCEPT !.seq = CHOOSE i \in applied : order[i] = id]
        ELSE qs[id]]

\* QuestionManager.reorder(t) on table qs: the possible outcomes.  The listing
\* request may fail (get_by_thread then returns an empty frame and reorder
\* returns at once); otherwise one PATCH is issued per position of NeedPatch
\* and any subset of them takes effect (a failed PATCH returns None and the
\* loop goes on).  ok: every request succeeded; patches: PATCHes issued.
reorder(qs, t) ==
    {[qs |-> qs, ok |-> FALSE, patches |-> 0]}
    \cup UNION {
        {[qs |-> renumber(qs, o, a),
          ok |-> (a = NeedPatch(qs, o)),
          patches |-> Cardinality(NeedPatch(qs, o))] :
            a \in SUBSET NeedPatch(qs, o)} :
        o \in get_by_thread(qs, t)}

\* Variant: k positions taken from the end of the listing.
FirstK_from_end(S, k) == {i \in S : Cardinality({j \in S : j > i}) < k}

\* The first k positions of S in ascending order.
FirstK(S, k) == {i \in S : Cardinality({j \in S : j < i}) < k}

\* interrupted: the thread of a crashed reorder run, the table before that run
\* and the number of its PATCHes that had taken effect.
NoInterrupt == [thread |-> 0, before |-> <<>>, done |-> 0]

\* The record of an operation.
\*   op        the operation
\*   thread    the thread it addressed (0: none found)
\*   qid       the question create stored (0: none) or delete was called with
\*   auto      create was called with sequence_number=None
\*   posted    the sequence_number create or the page's update sent, if any
\*   ok        every request the operation issued succeeded
\*   reordered the thread on which the operation ran the reorder pass (0: none)
\*   patches   the PATCH requests issued by that reorder pass
\*   prior     <<n>> when the operation is a reorder run that directly follows
\*             a reorder pass on the same thread in which all requests
\*             succeeded and n PATCHes were issued; <<>> otherwise
Op(op, t, q, auto, posted, ok, reordered, patches, prior) ==
    [op |-> op, thread |-> t, qid |-> q, auto |-> auto, posted |-> posted,
     ok |-> ok, reordered |-> reordered, patches |-> patches, prior |-> prior]

----------------------------------------------------------------------------
\* Evaluations.

\* The answers that exist at the start (rows of table answers).
AnswerIds == {1, 2}

\* The fixed set of evaluation dimensions, in its order.
FixedDimensions ==
    <<"Accuracy/Correctness", "Relevance", "Completeness", "Reasoning",
      "Hallucination", "Verbose", "Additional Comments">>

Range(f) == {f[i] : i \in DOMAIN f}

\* Dimension values a caller passes: the page's field is free text
\* ("e.g., Accuracy, Clarity").
DimensionArgs == {"Accuracy/Correctness", "Relevance", "Clarity"}

\* Scores a caller passes (the slider runs from 0 to 10 in steps of 1).
ScoreArgs == {5, 7}

\* order=dimension: the rank of a dimension in ascending text order.
Alphabetical ==
    <<"Accuracy/Correctness", "Additional Comments", "Clarity", "Completeness",
      "Hallucination", "Reasoning", "Relevance", "Verbose">>
DimRank(d) == CHOOSE i \in DOMAIN Alphabetical : Alphabetical[i] = d

\* The ids of the evaluations of answer a (filter answer_id=eq.a).
AnswerEvals(evs, a) == {i \in DOMAIN evs : evs[i].answer = a}

\* A row as the REST call returns it.
EvalRow(evs, i) ==
    [id |-> i, answer |-> evs[i].answer, dimension |-> evs[i].dimension,
     score |-> evs[i].score]

\* The listings of the rows S in ascending dimension.
RECURSIVE ByDimension(_, _)
ByDimension(evs, S) ==
    IF S = {} THEN {<<>>}
    ELSE UNION {{<<EvalRow(evs, m)>> \o o : o \in ByDimension(evs, S \ {m})} :
                m \in {x \in S : \A y \in S :
                        DimRank(evs[x].dimension) <= DimRank(evs[y].dimension)}}

\* The listings of the rows S in any order (a query without order).
RECURSIVE AnyOrder(_, _)
AnyOrder(evs, S) ==
    IF S = {} THEN {<<>>}
    ELSE UNION {{<<evs[m].dimension>> \o o : o \in AnyOrder(evs, S \ {m})} :
                m \in S}

\* EvaluationManager.get_by_answer: the rows of answer a ordered by
\* dimension; the possible listings when the request succeeds.
get_by_answer(evs, a) == ByDimension(evs, AnswerEvals(evs, a))

\* Variant: the answer filter left out of the query.
get_dimensions_unfiltered(evs, a) == AnyOrder(evs, DOMAIN evs)

\* EvaluationManager.get_dimensions_for_answer: the dimension column of the
\* rows of answer a; the possible results when the request succeeds.
get_dimensions_for_answer(evs, a) == AnyOrder(evs, AnswerEvals(evs, a))

\* get_missing_dimensions_for_answer: the fixed dimensions not among the
\* recorded ones, in fixed-set order.
get_missing_dimensions(recorded) ==
    SelectSeq(FixedDimensions, LAMBDA d : d \notin Range(recorded))

\* The record of an evaluation operation.
\*   op         the operation
\*   id         the evaluation created (0: None returned) or addressed
\*   answer     the answer_id argument (0: none)
\*   dimension  the dimension argument, if any
\*   score      the score argument, if any
\*   ok         the request succeeded
\*   writes     POST, PATCH and DELETE requests issued
\*   result     the rows or dimensions a query returned
EOp(op, id, a, dimension, score, ok, writes, result) ==
    [op |-> op, id |-> id, answer |-> a, dimension |-> dimension,
     score |-> score, ok |-> ok, writes |-> writes, result |-> result]

\* Variant: a row for an (answer, dimension) that has one is not stored.
insert_evaluation_unique(evs, id, a, d, s) ==
    IF \E j \in DOMAIN evs : evs[j].answer = a /\ evs[j].dimension = d
    THEN evs
    ELSE [i \in DOMAIN evs \cup {id} |->
            IF i = id THEN [answer |-> a, dimension |-> d, score |-> s] ELSE evs[i]]

\* Variant: a second row for the same (answer, dimension) replaces the first.
insert_evaluation_upsert(evs, id, a, d, s) ==
    [i \in {j \in DOMAIN evs : ~(evs[j].answer = a /\ evs[j].dimension = d)}
            \cup {id} |->
        IF i = id THEN [answer |-> a, dimension |-> d, score |-> s] ELSE evs[i]]

\* The table after the POST of EvaluationManager.create stored its row.
insert_evaluation(evs, id, a, d, s) ==
    [i \in DOMAIN evs \cup {id} |->
        IF i = id THEN [answer |-> a, dimension |-> d, score |-> s] ELSE evs[i]]

\* EvaluationManager.create(answer_id, dimension, score): one POST with the
\* arguments as they are; the store refuses a row whose answer_id names no
\* answer (FOREIGN KEY), and a refused or failed POST returns None.
EvalCreate(a, d, s) ==
    /\ UNCHANGED <<qvars, svars, xvars>>
    /\ nextEid <= MaxEid
    /\ \E postOk \in BOOLEAN :
        IF postOk /\ a \in answers
        THEN /\ evaluations' = insert_evaluation(evaluations, nextEid, a, d, s)
             /\ nextEid' = nextEid + 1
             /\ elast' = EOp("create", nextEid, a, Some(d), Some(s), TRUE, 1, <<>>)
        ELSE /\ UNCHANGED <<evaluations, nextEid>>
             /\ elast' = EOp("create", 0, a, Some(d), Some(s), FALSE, 1, <<>>)
    /\ UNCHANGED answers

\* The table after the PATCH of EvaluationManager.update: dimension and score
\* are part of the body only when the argument is not None.
update_evaluation(evs, e, d, s) ==
    IF e \in DOMAIN evs
    THEN [evs EXCEPT ![e] =
            [answer |-> @.answer,
             dimension |-> IF d = NoneArg THEN @.dimension ELSE d[1],
             score |-> IF s = NoneArg THEN @.score ELSE s[1]]]
    ELSE evs

\* EvaluationManager.update(evaluation_id, dimension, score, ...): one PATCH.
EvalUpdate(e, d, s) ==
    /\ UNCHANGED <<qvars, svars, xvars>>
    /\ \E patchOk \in BOOLEAN :
        /\ evaluations' = IF patchOk THEN update_evaluation(evaluations, e, d, s)
                          ELSE evaluations
        /\ elast' = EOp("update", e, 0, d, s, patchOk, 1, <<>>)
    /\ UNCHANGED <<answers, nextEid>>

\* EvaluationManager.delete(evaluation_id): one DELETE.
EvalDelete(e) ==
    /\ UNCHANGED <<qvars, svars, xvars>>
    /\ \E deleteOk \in BOOLEAN :
        /\ evaluations' = IF deleteOk
                          THEN [i \in DOMAIN evaluations \ {e} |-> evaluations[i]]
                          ELSE evaluations
        /\ elast' = EOp("delete", e, 0, NoneArg, NoneArg, deleteOk, 1, <<>>)
    /\ UNCHANGED <<answers, nextEid>>

\* AnswerManager.delete(answer_id): one DELETE; the evaluations of the answer
\* go with it (ON DELETE CASCADE).
AnswerDelete(a) ==
    /\ UNCHANGED <<qvars, svars, xvars>>
    /\ \E deleteOk \in BOOLEAN :
        /\ answers' = IF deleteOk THEN answers \ {a} ELSE answers
        /\ evaluations' = IF deleteOk
                          THEN [i \in DOMAIN evaluations \ AnswerEvals(evaluations, a)
                                    |-> evaluations[i]]
                          ELSE evaluations
        /\ elast' = EOp("answer_delete", 0, a, NoneArg, NoneArg, deleteOk, 1, <<>>)
    /\ UNCHANGED nextEid

\* EvaluationManager.get_by_answer(answer_id) called: a failed request gives
\* an empty frame.
GetByAnswer(a) ==
    /\ UNCHANGED <<qvars, svars, xvars>>
    /\ \E ok \in BOOLEAN :
        \E rows \in (IF ok THEN get_by_answer(evaluations, a) ELSE {<<>>}) :
            elast' = EOp("get_by_answer", 0, a, NoneArg, NoneArg, ok, 0, rows)
    /\ UNCHANGED <<answers, evaluations, nextEid>>

\* EvaluationManager.get_dimensions_for_answer(answer_id) called: a failed
\* request gives an empty list.
GetDimensionsForAnswer(a) ==
    /\ UNCHANGED <<qvars, svars, xvars>>
    /\ \E ok \in BOOLEAN :
        \E recorded \in (IF ok THEN get_dimensions_for_answer(evaluations, a)
                         ELSE {<<>>}) :
            elast' = EOp("get_dimensions_for_answer", 0, a, NoneArg, NoneArg,
                         ok, 0, recorded)
    /\ UNCHANGED <<answers, evaluations, nextEid>>

\* The missing-dimensions query for an answer: get_dimensions_for_answer,
\* then the fixed dimensions that are not in its result.
MissingDimensions(a) ==
    /\ UNCHANGED <<qvars, svars, xvars>>
    /\ \E ok \in BOOLEAN :
        \E recorded \in (IF ok THEN get_dimensions_for_answer(evaluations, a)
                         ELSE {<<>>}) :
            elast' = EOp("missing_dimensions", 0, a, NoneArg, NoneArg, ok, 0,
                         get_missing_dimensions(recorded))
    /\ UNCHANGED <<answers, evaluations, nextEid>>


----------------------------------------------------------------------------
\* The REST helper and the six managers over the hierarchy of tables.
\* In this part a row carries its parent's id and one text column (name or
\* content); sequence_number, dimension and score are the subject of the
\* parts above.

\* The tables by depth, ai_personas first; each below the first references
\* the one before it with ON DELETE CASCADE.
Endpoints == <<"ai_personas", "question_categories", "question_threads",
               "questions", "answers", "evaluations">>
Levels == 1..Len(Endpoints)

\* The level of the questions table, whose manager deletes after a lookup.
QuestionLevel == CHOOSE l \in Levels : Endpoints[l] = "questions"

RowIds == 1..MaxRowId
TextArgs == {"a", "b"}
Methods == {"get", "post", "patch", "delete"}

\* What becomes of an HTTP request: a response below 400, a response with
\* status >= 400, or an exception raised by requests.
Transports == {"ok", "status", "exception"}

\* params: None, or a dict of filter clauses (the empty dict included).
Clause(col, val) == [col |-> col, val |-> val]
ById(id) == Some({Clause("id", id)})
ByParent(parent) == Some({Clause("parent", parent)})
ParamArgs ==
    {NoneArg, Some({})} \cup {ById(i) : i \in RowIds} \cup {ByParent(i) : i \in RowIds}

\* What supabase_request returns: None, or the rows of the JSON response.
None == [none |-> TRUE, rows |-> {}]
Json(ids) == [none |-> FALSE, rows |-> ids]

\* The rows of a table that a dict of filter clauses selects.
Matching(table, clauses) ==
    {id \in DOMAIN table :
        \A c \in clauses : IF c.col = "id" THEN id = c.val
                           ELSE table[id].parent = c.val}

\* Variant: the delete stops at the table it addresses.
cascade_one_table(tbs, l, ids) ==
    [tbs EXCEPT ![l] = [id \in DOMAIN tbs[l] \ ids |-> tbs[l][id]]]

\* ON DELETE CASCADE: the rows ids of level l go, and with them every row
\* of the next level that references one of them, and so on down.
RECURSIVE cascade(_, _, _)
cascade(tbs, l, ids) ==
    LET cut == [tbs EXCEPT ![l] = [id \in DOMAIN tbs[l] \ ids |-> tbs[l][id]]]
    IN IF l = Len(Endpoints) THEN cut
       ELSE cascade(cut, l + 1, {c \in DOMAIN tbs[l + 1] : tbs[l + 1][c].parent \in ids})

\* A request the server answers with a status below 400.  A POST whose
\* parent does not exist violates the foreign key and is answered with an
\* error status.
Accepted(tbs, srl, method, l, data) ==
    (method = "post" /\ l > 1) => data.parent \in DOMAIN tbs[l - 1]

\* The effect of an accepted request on the tbs and the rows it returns
\* (Prefer: return=representation).
Served(tbs, srl, method, l, clauses, data) ==
    LET hit == Matching(tbs[l], clauses) IN
    CASE method = "get" ->
            [tables |-> tbs, serial |-> srl, rows |-> hit]
      [] method = "post" ->
            [tables |-> [tbs EXCEPT ![l] =
                            [id \in DOMAIN tbs[l] \cup {srl[l]} |->
                                IF id = srl[l]
                                THEN [parent |-> IF l = 1 THEN 0 ELSE data.parent,
                                      text |-> data.text]
                                ELSE tbs[l][id]]],
             serial |-> [srl EXCEPT ![l] = srl[l] + 1],
             rows |-> {srl[l]}]
      [] method = "patch" ->
            [tables |-> [tbs EXCEPT ![l] =
                            [id \in DOMAIN tbs[l] |->
                                IF id \in hit
                                THEN [tbs[l][id] EXCEPT !.text = data.text]
                                ELSE tbs[l][id]]],
             serial |-> srl, rows |-> hit]
      [] OTHER ->
            [tables |-> cascade(tbs, l, hit), serial |-> srl, rows |-> hit]

\* The outcome of a call that sent nothing or failed: None, tbs as before.
Refused(tbs, srl, sent) ==
    [result |-> None, tables |-> tbs, serial |-> srl,
     sent |-> sent, error |-> TRUE]

\* Variant: PATCH and DELETE go out without the test of params.
supabase_request_unguarded(tbs, srl, method, l, params, data, transport) ==
    IF transport = "ok" /\ Accepted(tbs, srl, method, l, data)
    THEN LET s == Served(tbs, srl, method, l,
                         IF params = NoneArg \/ method = "post" THEN {} ELSE params[1], data)
         IN [result |-> Json(s.rows), tables |-> s.tables, serial |-> s.serial,
             sent |-> 1, error |-> FALSE]
    ELSE Refused(tbs, srl, 1)

\* Variant: a response with status >= 400 or an exception is followed by a
\* second attempt.
supabase_request_retry(tbs, srl, method, l, params, data, transport) ==
    IF method \in {"patch", "delete"} /\ (params = NoneArg \/ params[1] = {})
    THEN Refused(tbs, srl, 0)
    ELSE IF Accepted(tbs, srl, method, l, data)
    THEN LET s == Served(tbs, srl, method, l,
                         IF params = NoneArg \/ method = "post" THEN {} ELSE params[1], data)
         IN [result |-> Json(s.rows), tables |-> s.tables, serial |-> s.serial,
             sent |-> IF transport = "ok" THEN 1 ELSE 2, error |-> FALSE]
    ELSE Refused(tbs, srl, 2)

\* Variant: the status of the response is not looked at.
supabase_request_any_status(tbs, srl, method, l, params, data, transport) ==
    IF method \in {"patch", "delete"} /\ (params = NoneArg \/ params[1] = {})
    THEN Refused(tbs, srl, 0)
    ELSE IF transport # "exception" /\ Accepted(tbs, srl, method, l, data)
    THEN LET s == Served(tbs, srl, method, l,
                         IF params = NoneArg \/ method = "post" THEN {} ELSE params[1], data)
         IN [result |-> IF transport = "ok" THEN Json(s.rows) ELSE None,
             tables |-> s.tables, serial |-> s.serial,
             sent |-> 1, error |-> transport # "ok"]
    ELSE Refused(tbs, srl, 1)

\* supabase_request(method, endpoint, params, data) with the given fate of
\* its HTTP request.  A PATCH or DELETE whose params is None or empty
\* returns None before anything is sent; otherwise one request goes out, and
\* a status >= 400 or an exception makes the call return None.  POST sends
\* no params.  result: the value returned; sent: HTTP requests issued;
\* error: st.error was called.
supabase_request(tbs, srl, method, l, params, data, transport) ==
    IF method \in {"patch", "delete"} /\ (params = NoneArg \/ params[1] = {})
    THEN Refused(tbs, srl, 0)
    ELSE IF transport = "ok" /\ Accepted(tbs, srl, method, l, data)
    THEN LET s == Served(tbs, srl, method, l,
                         IF params = NoneArg \/ method = "post" THEN {} ELSE params[1], data)
         IN [result |-> Json(s.rows), tables |-> s.tables, serial |-> s.serial,
             sent |-> 1, error |-> FALSE]
    ELSE Refused(tbs, srl, 1)

\* The record of a store operation.
\*   op      "request" (a direct call of supabase_request) or the manager
\*           method: "create", "update", "delete", "get_by_id", "list"
\*   method  the HTTP method of a direct call ("" for a manager method)
\*   level   the table
\*   filter  the params of a direct call: "none" (None), "empty" (an empty
\*           dict) or "some" (at least one clause); "" for a manager method
\*   id      the id or parent id a manager method was called with
\*   ok      every request issued was answered without error
\*   sent    HTTP requests issued
\*   writes  of these, POST, PATCH and DELETE requests
\*   error   st.error was called
\*   raised  an exception left the call
\*   ret     <<v>> when the call returned v, <<>> when it returned None
\*   gone    rows that left the tables in the operation, cascade included
SOp(op, method, l, filter, id, ok, sent, writes, error, raised, ret, gone) ==
    [op |-> op, method |-> method, level |-> l, filter |-> filter, id |-> id,
     ok |-> ok, sent |-> sent, writes |-> writes, error |-> error,
     raised |-> raised, ret |-> ret, gone |-> gone]

\* The number of rows in all tables.
RECURSIVE RowCount(_, _)
RowCount(tbs, l) ==
    IF l = 0 THEN 0 ELSE Cardinality(DOMAIN tbs[l]) + RowCount(tbs, l - 1)

Gone(before, after) == RowCount(before, Len(Endpoints)) - RowCount(after, Len(Endpoints))

Data(parent, text) == [parent |-> parent, text |-> text]

FilterOf(params) ==
    IF params = NoneArg THEN "none" ELSE IF params[1] = {} THEN "empty" ELSE "some"

\* A direct call supabase_request(method, endpoint, params, data).
Request(method, l, params, data) ==
    /\ UNCHANGED <<qvars, evars, xvars>>
    /\ \E transport \in Transports :
        LET out == supabase_request(tables, serial, method, l, params, data, transport)
        IN /\ tables' = out.tables
           /\ serial' = out.serial
           /\ slast' = SOp("request", method, l, FilterOf(params), 0,
                           ~out.error, out.sent,
                           IF method = "get" THEN 0 ELSE out.sent, out.error,
                           FALSE,
                           IF out.result.none THEN NoneArg ELSE Some(out.result.rows),
                           IF method = "delete" THEN Gone(tables, out.tables) ELSE 0)

\* Variant: create returns the id it asked for whatever the POST returned.
created_id_unchecked(result, srl, l) == Some(srl[l])

\* The value the create of a manager returns: result[0][<id column>] when
\* the POST returned rows, else None.
created_id(result, srl, l) ==
    IF ~result.none /\ result.rows # {}
    THEN Some(CHOOSE id \in result.rows : TRUE)
    ELSE NoneArg

\* <Manager>.create(parent_id, ...) of the manager of level l: one POST.
\* (QuestionManager.create also reads the largest sequence number and
\* reorders, see Create; those requests touch sequence numbers only.)
ManagerCreate(l, parent, text) ==
    /\ UNCHANGED <<qvars, evars, xvars>>
    /\ \E transport \in Transports :
        LET out == supabase_request(tables, serial, "post", l, NoneArg,
                                    Data(parent, text), transport)
        IN /\ tables' = out.tables
           /\ serial' = out.serial
           /\ slast' = SOp("create", "", l, "", parent, ~out.error, out.sent,
                           out.sent, out.error, FALSE,
                           created_id(out.result, serial, l), 0)

\* <Manager>.update(id, ...): one PATCH filtered on the id; the method has
\* no return statement.
ManagerUpdate(l, id, text) ==
    /\ UNCHANGED <<qvars, evars, xvars>>
    /\ \E transport \in Transports :
        LET out == supabase_request(tables, serial, "patch", l, ById(id),
                                    Data(0, text), transport)
        IN /\ tables' = out.tables
           /\ serial' = out.serial
           /\ slast' = SOp("update", "", l, "", id, ~out.error, out.sent,
                           out.sent, out.error, FALSE, NoneArg, 0)

\* Variant: the frame of the first row of the result (result[0]).
frame_first_row(result) ==
    IF result.none \/ result.rows = {} THEN [raised |-> TRUE, rows |-> {}]
    ELSE [raised |-> FALSE, rows |-> result.rows]

\* pd.DataFrame(result) if result else pd.DataFrame(): the rows of the
\* result, none for None or an empty list.  raised: an exception left the
\* method.
frame(result) ==
    [raised |-> FALSE, rows |-> IF result.none THEN {} ELSE result.rows]

\* <Manager>.delete(id): one DELETE filtered on the id.  QuestionManager
\* looks the question up first and sends the DELETE only when a row came
\* back; the reorder that follows changes sequence numbers only.  No
\* return statement.
ManagerDelete(l, id) ==
    /\ UNCHANGED <<qvars, evars, xvars>>
    /\ \E lookup \in (IF l = QuestionLevel THEN Transports ELSE {"ok"}),
          transport \in Transports :
        LET found == IF l = QuestionLevel
                     THEN supabase_request(tables, serial, "get", l, ById(id),
                                           NoneArg, lookup)
                     ELSE [result |-> Json({id}), sent |-> 0, error |-> FALSE]
            out == IF frame(found.result).rows # {}
                   THEN supabase_request(tables, serial, "delete", l, ById(id),
                                         NoneArg, transport)
                   ELSE [result |-> None, tables |-> tables, serial |-> serial,
                         sent |-> 0, error |-> FALSE]
        IN /\ tables' = out.tables
           /\ serial' = out.serial
           /\ slast' = SOp("delete", "", l, "", id,
                           ~found.error /\ ~out.error, found.sent + out.sent,
                           out.sent, found.error \/ out.error, FALSE, NoneArg,
                           Gone(tables, out.tables))

\* <Manager>.get_by_id(id): a GET filtered on the id, as a frame.
GetById(l, id) ==
    /\ UNCHANGED <<qvars, evars, xvars>>
    /\ \E transport \in Transports :
        LET out == supabase_request(tables, serial, "get", l, ById(id),
                                    NoneArg, transport)
        IN slast' = SOp("get_by_id", "", l, "", id, ~out.error, out.sent, 0,
                        out.error, frame(out.result).raised,
                        IF frame(out.result).raised THEN NoneArg
                        ELSE Some(frame(out.result).rows), 0)
    /\ UNCHANGED <<tables, serial>>

\* get_by_persona, get_by_category, get_by_thread, get_by_question and
\* get_by_answer: a GET filtered on the parent id, as a frame.
ListByParent(l, parent) ==
    /\ UNCHANGED <<qvars, evars, xvars>>
    /\ l > 1
    /\ \E transport \in Transports :
        LET out == supabase_request(tables, serial, "get", l, ByParent(parent),
                                    NoneArg, transport)
        IN slast' = SOp("list", "", l, "", parent, ~out.error, out.sent, 0,
                        out.error, frame(out.result).raised,
                        IF frame(out.result).raised THEN NoneArg
                        ELSE Some(frame(out.result).rows), 0)
    /\ UNCHANGED <<tables, serial>>

----------------------------------------------------------------------------
\* The dropdowns of the pages and the selections they remember.
\*
\* A page shows one dropdown per level of the hierarchy, personas first:
\* the category page one, the thread page two, and so on down to the
\* evaluation page with five.  The model has pages of 1..NavDepth levels.

\* Variant: one key per level, whatever the parent.
Key_per_level(l, parent) == <<l, 0>>

\* The key under which the selection of level l is remembered:
\* 'last_persona_id' is <<1, 0>>, f"last_category_id_{persona_id}" is
\* <<2, persona_id>>, and so on.
Key(l, parent) == <<l, IF l = 1 THEN 0 ELSE parent>>

\* The orders in which a query may list the rows ids (rows that tie on
\* the order column come in any order).
Listings(ids) ==
    {o \in [1..Cardinality(ids) -> ids] : \A i, j \in DOMAIN o : i # j => o[i] # o[j]}

\* Variant: the dropdown always starts at its first option.
selectbox_index_first(options, remembered) == 1

\* The index argument of st.selectbox: the place of the remembered id in
\* the options when it is among them, else the first place (places count
\* from 1 here).
selectbox_index(options, remembered) ==
    IF \E i \in DOMAIN options : options[i] = remembered
    THEN CHOOSE i \in DOMAIN options : options[i] = remembered
    ELSE 1

\* st.selectbox(options, index): the option the user picked in this run
\* when there is one among the options, else the option at index.
selectbox(options, index, picked) ==
    IF picked # NoneArg /\ (\E i \in DOMAIN options : options[i] = picked[1])
    THEN picked[1]
    ELSE options[index]

\* A record of one step of the pages.
\*   selected  the id selected at each level that was rendered
\*   first     the first entry of the list of each such level
\*   pick      the level at which the user picked an option, 0 for none
\*   stale     the levels whose remembered id was not in the list
NOp(op, selected, first, pick, stale) ==
    [op |-> op, selected |-> selected, first |-> first, pick |-> pick,
     stale |-> stale]

\* The dropdowns of a page from level l down to level depth, the parent
\* being the id selected one level up: what the run may do to the
\* session state, one outcome per outcome of each GET and per order of
\* each list.  pick is <<level, id>> for the option the user picked, or
\* None.  An empty list (or a failed GET) ends the page with a warning.
RECURSIVE render(_, _, _, _, _, _, _)
render(tbs, srl, ss, l, parent, depth, pick) ==
    IF l > depth
    THEN {[ss |-> ss, selected |-> <<>>, first |-> <<>>, stale |-> 0]}
    ELSE UNION {
        LET out == supabase_request(tbs, srl, "get", l,
                                    IF l = 1 THEN Some({}) ELSE ByParent(parent),
                                    NoneArg, transport)
            rows == frame(out.result).rows
        IN IF rows = {}
           THEN {[ss |-> ss, selected |-> <<>>, first |-> <<>>, stale |-> 0]}
           ELSE UNION {
                LET key == Key(l, parent)
                    had == key \in DOMAIN ss
                    ss1 == IF had THEN ss
                           ELSE [k \in DOMAIN ss \cup {key} |->
                                    IF k = key THEN options[1] ELSE ss[k]]
                    index == selectbox_index(options, ss1[key])
                    id == selectbox(options, index,
                                    IF pick # NoneArg /\ pick[1] = l
                                    THEN Some(pick[2]) ELSE NoneArg)
                    ss2 == [ss1 EXCEPT ![key] = id]
                IN {[ss |-> below.ss,
                     selected |-> <<id>> \o below.selected,
                     first |-> <<options[1]>> \o below.first,
                     stale |-> below.stale +
                               (IF had /\ ss[key] \notin rows THEN 1 ELSE 0)] :
                        below \in render(tbs, srl, ss2, l + 1, id, depth, pick)}
                : options \in Listings(rows)}
        : transport \in Transports}

\* One run of a page with depth dropdowns, after the user picked nothing or
\* picked a row at one level.
Render(depth, pick) ==
    /\ UNCHANGED <<qvars, evars, svars, fvars, cvars>>
    /\ pick # NoneArg => pick[2] \in DOMAIN tables[pick[1]]
    /\ \E out \in render(tables, serial, session_state, 1, 0, depth, pick) :
        /\ session_state' = out.ss
        /\ nlast' = NOp("render", out.selected, out.first,
                        IF pick = NoneArg THEN 0 ELSE pick[1], out.stale)

\* The rows created so far in the tables of levels 1..l.
RECURSIVE Created(_, _)
Created(srl, l) == IF l = 0 THEN 0 ELSE srl[l] - 1 + Created(srl, l - 1)

\* A row is added to the table of level l on some page, under a parent the
\* page shows (the create of the manager, one POST), at most MaxNavRows in
\* all.
NavCreate(l, parent) ==
    /\ UNCHANGED <<qvars, evars, slast, session_state, fvars, cvars>>
    /\ Created(serial, Len(Endpoints)) < MaxNavRows
    /\ IF l = 1 THEN parent = 0 ELSE parent \in DOMAIN tables[l - 1]
    /\ \E transport \in Transports :
        LET out == supabase_request(tables, serial, "post", l, NoneArg,
                                    Data(parent, "a"), transport)
        IN /\ tables' = out.tables
           /\ serial' = out.serial
    /\ nlast' = NOp("rows", <<>>, <<>>, 0, 0)

\* A row a page lists at level l is deleted (the delete of the manager,
\* one DELETE filtered on the id), and its subtree with it.
NavDelete(l, id) ==
    /\ UNCHANGED <<qvars, evars, slast, session_state, fvars, cvars>>
    /\ id \in DOMAIN tables[l]
    /\ \E transport \in Transports :
        LET out == supabase_request(tables, serial, "delete", l, ById(id),
                                    NoneArg, transport)
        IN /\ tables' = out.tables
           /\ serial' = out.serial
    /\ nlast' = NOp("rows", <<>>, <<>>, 0, 0)

----------------------------------------------------------------------------
\* The columns the update methods write.
\*
\* A row holds, for each column an update of its manager can write, 0 (the
\* value stored when the row was created) or 1 (a value an update passed).
\* updated_by and updated_at, which every update writes, are left out.

\* The columns by table: the one every update writes first (questions and
\* answers: content), then the optional ones.
Columns ==
    [questions |-> {"content", "reference_links", "sequence_number"},
     answers |-> {"content", "is_ai_generated", "metadata"},
     evaluations |-> {"dimension", "score", "comments", "evaluator"}]

\* Values an update passes for a column.
FieldArgs == {1}
OptFieldArgs == {NoneArg} \cup {Some(v) : v \in FieldArgs}

\* Variant: an argument left as None is sent as null and stored as 0.
Opt_null(col, arg) == [c \in {col} |-> IF arg = NoneArg THEN 0 ELSE arg[1]]

\* if arg is not None: data[col] = arg
Opt(col, arg) == IF arg = NoneArg THEN <<>> ELSE [c \in {col} |-> arg[1]]

\* A dict with the entries of both, those of g first.
Merge(f, g) ==
    [c \in DOMAIN f \cup DOMAIN g |-> IF c \in DOMAIN g THEN g[c] ELSE f[c]]

\* The body of the PATCH of QuestionManager.update.
question_data(content, reference_links, sequence_number) ==
    Merge(Merge([c \in {"content"} |-> content],
                Opt("reference_links", reference_links)),
          Opt("sequence_number", sequence_number))

\* The body of the PATCH of AnswerManager.update.
answer_data(content, is_ai_generated, metadata) ==
    Merge(Merge([c \in {"content"} |-> content],
                Opt("is_ai_generated", is_ai_generated)),
          Opt("metadata", metadata))

\* The body of the PATCH of EvaluationManager.update.
evaluation_data(dimension, score, comments, evaluator) ==
    Merge(Merge(Opt("dimension", dimension), Opt("score", score)),
          Merge(Opt("comments", comments), Opt("evaluator", evaluator)))

\* PATCH with params {<id column>: eq.id} and body data: the columns of
\* data are written in the row with that id, if there is one.
patch(recs, tb, id, data) ==
    [recs EXCEPT ![tb] =
        [i \in DOMAIN recs[tb] |->
            IF i = id
            THEN [c \in DOMAIN recs[tb][i] |->
                    IF c \in DOMAIN data THEN data[c] ELSE recs[tb][i][c]]
            ELSE recs[tb][i]]]

\* The column of an argument that is not None.
Passed(col, arg) == IF arg = NoneArg THEN {} ELSE {col}

\* A record of one operation on records.
\*   given  the columns whose argument was not None
\*   ok     the request succeeded
FOp(op, tb, id, given, ok) ==
    [op |-> op, table |-> tb, id |-> id, given |-> given, ok |-> ok]

\* The rows of all three tables.
FieldRows(recs) ==
    Cardinality(DOMAIN recs.questions) + Cardinality(DOMAIN recs.answers)
        + Cardinality(DOMAIN recs.evaluations)

\* The create of the manager of table tb: one POST; the new row gets the
\* next id of the table.
FieldCreate(tb) ==
    /\ UNCHANGED <<qvars, evars, svars, nvars, cvars>>
    /\ FieldRows(records) < MaxFieldRows
    /\ \E postOk \in BOOLEAN :
        LET id == Cardinality(DOMAIN records[tb]) + 1
        IN /\ records' = IF postOk
                         THEN [records EXCEPT ![tb] =
                                [i \in DOMAIN records[tb] \cup {id} |->
                                    IF i = id THEN [c \in Columns[tb] |-> 0]
                                    ELSE records[tb][i]]]
                         ELSE records
           /\ flast' = FOp("create", tb, IF postOk THEN id ELSE 0, {}, postOk)

\* QuestionManager.update(question_id, content, reference_links, updated_by,
\* sequence_number): one PATCH filtered on the id, applied or failed.
QuestionUpdate(id, content, reference_links, sequence_number) ==
    /\ UNCHANGED <<qvars, evars, svars, nvars, cvars>>
    /\ \E patchOk \in BOOLEAN :
        /\ records' = IF patchOk
                      THEN patch(records, "questions", id,
                                 question_data(content, reference_links,
                                               sequence_number))
                      ELSE records
        /\ flast' = FOp("update", "questions", id,
                        {"content"} \cup Passed("reference_links", reference_links)
                            \cup Passed("sequence_number", sequence_number),
                        patchOk)

\* AnswerManager.update(answer_id, content, is_ai_generated, metadata,
\* updated_by): one PATCH filtered on the id, applied or failed.
AnswerUpdate(id, content, is_ai_generated, metadata) ==
    /\ UNCHANGED <<qvars, evars, svars, nvars, cvars>>
    /\ \E patchOk \in BOOLEAN :
        /\ records' = IF patchOk
                      THEN patch(records, "answers", id,
                                 answer_data(content, is_ai_generated, metadata))
                      ELSE records
        /\ flast' = FOp("update", "answers", id,
                        {"content"} \cup Passed("is_ai_generated", is_ai_generated)
                            \cup Passed("metadata", metadata),
                        patchOk)

\* EvaluationManager.update(evaluation_id, dimension, score, comments,
\* evaluator, updated_by): one PATCH filtered on the id, applied or failed.
EvaluationUpdate(id, dimension, score, comments, evaluator) ==
    /\ UNCHANGED <<qvars, evars, svars, nvars, cvars>>
    /\ \E patchOk \in BOOLEAN :
        /\ records' = IF patchOk
                      THEN patch(records, "evaluations", id,
                                 evaluation_data(dimension, score, comments,
                                                 evaluator))
                      ELSE records
        /\ flast' = FOp("update", "evaluations", id,
                        Passed("dimension", dimension) \cup Passed("score", score)
                            \cup Passed("comments", comments)
                            \cup Passed("evaluator", evaluator),
                        patchOk)

----------------------------------------------------------------------------
\* Two browser sessions on one thread.
\*
\* Streamlit runs the script of each session in its own thread, and the
\* managers hold no lock and open no transaction: the requests of two
\* operations reach the database in any interleaving.  Each action below
\* is one request of one session; every request succeeds.

Sessions == {1, 2}

\* The thread both sessions work on.
SharedThread == 1

\* What a session holds between two of its requests.
\*   pc    "idle": no operation running; "post": create looked up the
\*         largest number; "delete": delete found the question; "list":
\*         the reorder pass is about to list; "patch": it is in its loop
\*   seq   the sequence_number create computed
\*   qid   the question delete looked up
\*   plan  the <<question_id, idx>> pairs of the listing the loop has yet
\*         to PATCH (the rows whose listed number differs from idx)
Local(pc, seq, qid, plan) == [pc |-> pc, seq |-> seq, qid |-> qid, plan |-> plan]
Idle == Local("idle", 0, 0, <<>>)

\* The pairs of the positions of a listing that need a PATCH, in order.
RECURSIVE Plan(_, _, _)
Plan(qs, order, i) ==
    IF i > Len(order) THEN <<>>
    ELSE (IF qs[order[i]].seq # i THEN <<(<<order[i], i>>)>> ELSE <<>>)
         \o Plan(qs, order, i + 1)

----------------------------------------------------------------------------
Init ==
    /\ questions = <<>>
    /\ nextQid = 1
    /\ last = Op("init", 0, 0, FALSE, NoneArg, TRUE, 0, 0, NoneArg)
    /\ interrupted = NoInterrupt
    /\ answers = AnswerIds
    /\ evaluations = <<>>
    /\ nextEid = 1
    /\ elast = EOp("init", 0, 0, NoneArg, NoneArg, TRUE, 0, <<>>)
    /\ tables = [l \in Levels |-> <<>>]
    /\ serial = [l \in Levels |-> 1]
    /\ slast = SOp("init", "", 0, "", 0, TRUE, 0, 0, FALSE, FALSE, NoneArg, 0)
    /\ session_state = <<>>
    /\ nlast = NOp("init", <<>>, <<>>, 0, 0)
    /\ records = [tb \in DOMAIN Columns |-> <<>>]
    /\ flast = FOp("init", "", 0, {}, TRUE)
    /\ sessions = [s \in Sessions |-> Idle]

\* Variant: the number of questions of the thread plus one instead of the
\* largest sequence_number plus one.
create_sequence_count(qs, t, arg, lookupOk) ==
    IF arg # NoneArg THEN arg[1]
    ELSE IF lookupOk THEN Cardinality(ThreadIds(qs, t)) + 1 ELSE 1

\* The sequence number create sends: the argument, or with None the largest
\* sequence_number of the thread plus one (order=sequence_number.desc,
\* limit=1), or 1 when the lookup returns nothing (an empty thread, or a
\* failed request: `if result and len(result) > 0`).
create_sequence(qs, t, arg, lookupOk) ==
    IF arg # NoneArg THEN arg[1]
    ELSE IF lookupOk /\ ThreadIds(qs, t) # {}
         THEN Max({qs[i].seq : i \in ThreadIds(qs, t)}) + 1
         ELSE 1

\* Variant: the reorder pass runs whether or not the POST returned a row.
Create_reorder_always(t, arg) ==
    /\ UNCHANGED <<evars, svars, xvars>>
    /\ nextQid <= MaxQid
    /\ \E lookupOk \in (IF arg = NoneArg THEN BOOLEAN ELSE {TRUE}), postOk \in BOOLEAN :
        LET s == create_sequence(questions, t, arg, lookupOk)
            inserted == IF postOk
                        THEN [id \in DOMAIN questions \cup {nextQid} |->
                                IF id = nextQid THEN [thread |-> t, seq |-> s]
                                ELSE questions[id]]
                        ELSE questions
        IN \E out \in reorder(inserted, t) :
            /\ questions' = out.qs
            /\ nextQid' = IF postOk THEN nextQid + 1 ELSE nextQid
            /\ last' = Op("create", t, IF postOk THEN nextQid ELSE 0, arg = NoneArg,
                          Some(s), postOk /\ lookupOk /\ out.ok, t, out.patches, NoneArg)
    /\ interrupted' = NoInterrupt

\* QuestionManager.create(thread_id, ..., sequence_number=arg).
Create(t, arg) ==
    /\ UNCHANGED <<evars, svars, xvars>>
    /\ nextQid <= MaxQid
    /\ t = 1 \/ Cardinality(ThreadIds(questions, t)) < MaxOtherThread
    /\ \E lookupOk \in (IF arg = NoneArg THEN BOOLEAN ELSE {TRUE}), postOk \in BOOLEAN :
        LET s == create_sequence(questions, t, arg, lookupOk) IN
        IF postOk
        THEN LET inserted == [id \in DOMAIN questions \cup {nextQid} |->
                                IF id = nextQid THEN [thread |-> t, seq |-> s]
                                ELSE questions[id]]
             IN \E out \in reorder(inserted, t) :
                    /\ questions' = out.qs
                    /\ nextQid' = nextQid + 1
                    /\ last' = Op("create", t, nextQid, arg = NoneArg, Some(s),
                                  lookupOk /\ out.ok, t, out.patches, NoneArg)
        ELSE /\ UNCHANGED <<questions, nextQid>>
             /\ last' = Op("create", t, 0, arg = NoneArg, Some(s),
                           FALSE, 0, 0, NoneArg)
    /\ interrupted' = NoInterrupt

\* The table after the PATCH of QuestionManager.update: sequence_number is
\* part of the body only when the argument is not None; an id that matches
\* no row changes nothing.
update_row(qs, q, arg) ==
    IF q \in DOMAIN qs /\ arg # NoneArg
    THEN [qs EXCEPT ![q].seq = arg[1]]
    ELSE qs

ThreadOf(qs, q) == IF q \in DOMAIN qs THEN qs[q].thread ELSE 0

\* QuestionManager.update(question_id, ..., sequence_number=arg): one PATCH,
\* no reorder pass.
Update(q, arg) ==
    /\ UNCHANGED <<evars, svars, xvars>>
    /\ \E patchOk \in BOOLEAN :
        /\ questions' = IF patchOk THEN update_row(questions, q, arg) ELSE questions
        /\ last' = Op("update", ThreadOf(questions, q), 0, FALSE, NoneArg,
                      patchOk, 0, 0, NoneArg)
    /\ UNCHANGED nextQid
    /\ interrupted' = NoInterrupt

\* Variant: the Update button without the reorder call after the update.
PageUpdate_no_reorder(q, s) ==
    /\ UNCHANGED <<evars, svars, xvars>>
    /\ q \in DOMAIN questions
    /\ \E patchOk \in BOOLEAN :
        /\ questions' = IF patchOk THEN update_row(questions, q, Some(s))
                        ELSE questions
        /\ last' = Op("page_update", questions[q].thread, 0, FALSE, Some(s),
                      patchOk, 0, 0, NoneArg)
    /\ UNCHANGED nextQid
    /\ interrupted' = NoInterrupt

\* The Update button of question_page for a listed question: update with
\* the sequence of the form, then reorder of the selected thread.
PageUpdate(q, s) ==
    /\ UNCHANGED <<evars, svars, xvars>>
    /\ q \in DOMAIN questions
    /\ \E patchOk \in BOOLEAN :
        LET t == questions[q].thread
            updated == IF patchOk THEN update_row(questions, q, Some(s))
                       ELSE questions
        IN \E out \in reorder(updated, t) :
            /\ questions' = out.qs
            /\ last' = Op("page_update", t, 0, FALSE, Some(s),
                          patchOk /\ out.ok, t, out.patches, NoneArg)
    /\ UNCHANGED nextQid
    /\ interrupted' = NoInterrupt

\* Variant: the DELETE filters on the thread of q instead of its id.
delete_row_thread(qs, q) ==
    [id \in {i \in DOMAIN qs : qs[i].thread # qs[q].thread} |-> qs[id]]

\* The table after DELETE questions?question_id=eq.q.
delete_row(qs, q) == [id \in DOMAIN qs \ {q} |-> qs[id]]

\* Variant: the reorder pass runs on every thread whatever the lookup
\* returned.
Delete_reorder_always(q) ==
    /\ UNCHANGED <<evars, svars, xvars>>
    /\ \E lookupOk \in BOOLEAN, deleteOk \in BOOLEAN, t \in Threads :
        LET found == lookupOk /\ q \in DOMAIN questions
            removed == IF found /\ deleteOk THEN delete_row(questions, q)
                       ELSE questions
        IN \E out \in reorder(removed, t) :
            /\ questions' = out.qs
            /\ last' = Op("delete", IF found THEN questions[q].thread ELSE 0, q,
                          FALSE, NoneArg, lookupOk /\ deleteOk /\ out.ok, t,
                          out.patches, NoneArg)
    /\ UNCHANGED nextQid
    /\ interrupted' = NoInterrupt

\* QuestionManager.delete(question_id): look the question up; when a row
\* comes back, DELETE it and reorder its thread.
Delete(q) ==
    /\ UNCHANGED <<evars, svars, xvars>>
    /\ \E lookupOk \in BOOLEAN, deleteOk \in BOOLEAN :
        IF lookupOk /\ q \in DOMAIN questions
        THEN LET t == questions[q].thread
                 removed == IF deleteOk THEN delete_row(questions, q)
                            ELSE questions
             IN \E out \in reorder(removed, t) :
                    /\ questions' = out.qs
                    /\ last' = Op("delete", t, q, FALSE, NoneArg,
                                  deleteOk /\ out.ok, t, out.patches, NoneArg)
        ELSE /\ UNCHANGED questions
             /\ last' = Op("delete", 0, q, FALSE, NoneArg, lookupOk, 0, 0, NoneArg)
    /\ UNCHANGED nextQid
    /\ interrupted' = NoInterrupt

\* QuestionManager.reorder(thread_id) on its own (the Reorder Questions
\* button, or a direct call).
Reorder(t) ==
    /\ UNCHANGED <<evars, svars, xvars>>
    /\ \E out \in reorder(questions, t) :
        /\ questions' = out.qs
        /\ last' = Op("reorder", t, 0, FALSE, NoneArg, out.ok, t, out.patches,
                      IF last.reordered = t /\ last.ok
                      THEN Some(last.patches) ELSE NoneArg)
        \* the snapshot of a crashed run is kept over the complete run that
        \* directly follows it on the same thread
        /\ interrupted' = IF last.op = "reorder_crash" /\ interrupted.thread = t
                              /\ out.ok
                           THEN interrupted ELSE NoInterrupt
    /\ UNCHANGED nextQid

\* A reorder run that stops after k of its PATCHes (the process dies in the
\* middle of the loop): the first k positions of NeedPatch took effect.
ReorderCrash(t) ==
    /\ UNCHANGED <<evars, svars, xvars>>
    /\ \E o \in get_by_thread(questions, t) :
        \E k \in 0..(Cardinality(NeedPatch(questions, o)) - 1) :
            /\ questions' = renumber(questions, o, FirstK(NeedPatch(questions, o), k))
            /\ last' = Op("reorder_crash", t, 0, FALSE, NoneArg, FALSE, t, k, NoneArg)
            /\ interrupted' = [thread |-> t, before |-> questions, done |-> k]
    /\ UNCHANGED nextQid

\* The requests of the two sessions.

\* QuestionManager.create with sequence_number=None, first request: the
\* largest number of the thread is read.
SessionCreateLookup(s) ==
    /\ UNCHANGED <<questions, nextQid, last, interrupted, evars, svars, nvars, fvars>>
    /\ sessions[s].pc = "idle"
    /\ nextQid <= MaxQid
    /\ sessions' = [sessions EXCEPT ![s] =
            Local("post", create_sequence(questions, SharedThread, NoneArg, TRUE),
                  0, <<>>)]

\* QuestionManager.create, the POST: with the number the caller passed, or
\* with the number computed from the lookup.
SessionCreatePost(s, arg) ==
    /\ UNCHANGED <<last, interrupted, evars, svars, nvars, fvars>>
    /\ nextQid <= MaxQid
    /\ \/ sessions[s].pc = "idle" /\ arg # NoneArg
       \/ sessions[s].pc = "post" /\ arg = NoneArg
    /\ LET n == IF arg = NoneArg THEN sessions[s].seq ELSE arg[1]
       IN questions' = [id \in DOMAIN questions \cup {nextQid} |->
                            IF id = nextQid THEN [thread |-> SharedThread, seq |-> n]
                            ELSE questions[id]]
    /\ nextQid' = nextQid + 1
    /\ sessions' = [sessions EXCEPT ![s] = Local("list", 0, 0, <<>>)]

\* The Update button, first request: QuestionManager.update PATCHes the
\* number of question q.
SessionUpdate(s, q, n) ==
    /\ UNCHANGED <<nextQid, last, interrupted, evars, svars, nvars, fvars>>
    /\ sessions[s].pc = "idle"
    /\ q \in DOMAIN questions
    /\ questions' = update_row(questions, q, Some(n))
    /\ sessions' = [sessions EXCEPT ![s] = Local("list", 0, 0, <<>>)]

\* QuestionManager.delete, first request: the question is looked up; the
\* method ends when no row comes back.
SessionDeleteLookup(s, q) ==
    /\ UNCHANGED <<questions, nextQid, last, interrupted, evars, svars, nvars, fvars>>
    /\ sessions[s].pc = "idle"
    /\ sessions' = [sessions EXCEPT ![s] =
            IF q \in DOMAIN questions THEN Local("delete", 0, q, <<>>) ELSE Idle]

\* QuestionManager.delete, the DELETE filtered on the id.
SessionDelete(s) ==
    /\ UNCHANGED <<nextQid, last, interrupted, evars, svars, nvars, fvars>>
    /\ sessions[s].pc = "delete"
    /\ questions' = delete_row(questions, sessions[s].qid)
    /\ sessions' = [sessions EXCEPT ![s] = Local("list", 0, 0, <<>>)]

\* QuestionManager.reorder, the listing: called on its own (Reorder
\* button) or as the pass that ends create, update and delete.  The rows
\* to PATCH are decided from the listing.
SessionList(s) ==
    /\ UNCHANGED <<questions, nextQid, last, interrupted, evars, svars, nvars, fvars>>
    /\ sessions[s].pc \in {"idle", "list"}
    /\ \E order \in get_by_thread(questions, SharedThread) :
        LET plan == Plan(questions, order, 1)
        IN sessions' = [sessions EXCEPT ![s] =
                IF plan = <<>> THEN Idle ELSE Local("patch", 0, 0, plan)]

\* QuestionManager.reorder, one PATCH of the loop, filtered on the id (it
\* changes nothing when the row is gone).
SessionPatch(s) ==
    /\ UNCHANGED <<nextQid, last, interrupted, evars, svars, nvars, fvars>>
    /\ sessions[s].pc = "patch"
    /\ LET step == Head(sessions[s].plan)
           rest == Tail(sessions[s].plan)
       IN /\ questions' = IF step[1] \in DOMAIN questions
                          THEN [questions EXCEPT ![step[1]].seq = step[2]]
                          ELSE questions
          /\ sessions' = [sessions EXCEPT ![s] =
                IF rest = <<>> THEN Idle ELSE Local("patch", 0, 0, rest)]

OptSeqArgs == {NoneArg} \cup {Some(s) : s \in SeqArgs}

Next ==
    \/ \E t \in Threads, arg \in OptSeqArgs : Create(t, arg)
    \/ \E q \in 1..MaxQid, arg \in OptSeqArgs : Update(q, arg)
    \/ \E q \in 1..MaxQid, s \in PageSeqArgs : PageUpdate(q, s)
    \/ \E q \in 1..MaxQid : Delete(q)
    \/ \E t \in Threads : Reorder(t)
    \/ \E t \in Threads : ReorderCrash(t)

Spec == Init /\ [][Next]_vars

OptDimensionArgs == {NoneArg} \cup {Some(d) : d \in DimensionArgs}
OptScoreArgs == {NoneArg} \cup {Some(s) : s \in ScoreArgs}

NextEval ==
    \/ \E a \in AnswerIds, d \in DimensionArgs, s \in ScoreArgs : EvalCreate(a, d, s)
    \/ \E e \in 1..MaxEid, d \in OptDimensionArgs, s \in OptScoreArgs : EvalUpdate(e, d, s)
    \/ \E e \in 1..MaxEid : EvalDelete(e)
    \/ \E a \in AnswerIds : AnswerDelete(a)
    \/ \E a \in AnswerIds : GetByAnswer(a)
    \/ \E a \in AnswerIds : GetDimensionsForAnswer(a)
    \/ \E a \in AnswerIds : MissingDimensions(a)

SpecEval == Init /\ [][NextEval]_vars

ParentArgs == 0..MaxRowId

\* The tables direct calls and the calls of SpecRequest address: a parent
\* table and a child table, with ids up to MaxRowId.
RequestLevels == 1..2

\* The (method, params, data) of a direct call: a GET or DELETE carries no
\* data, a POST no params, a PATCH both.
RequestArgs ==
    {<<m, p, NoneArg>> : m \in {"get", "delete"}, p \in ParamArgs}
    \cup {<<"post", NoneArg, Data(parent, text)>> :
              parent \in ParentArgs, text \in TextArgs}
    \cup {<<"patch", p, Data(0, text)>> : p \in ParamArgs, text \in TextArgs}

DirectRequest(l, a) ==
    /\ a[1] = "post" => serial[l] <= MaxRowId
    /\ Request(a[1], l, a[2], a[3])

RequestCreate(l, parent, text) ==
    /\ serial[l] <= MaxRowId
    /\ ManagerCreate(l, parent, text)

NextRequest ==
    \/ \E l \in RequestLevels, a \in RequestArgs : DirectRequest(l, a)
    \/ \E l \in RequestLevels, parent \in ParentArgs, text \in TextArgs :
            RequestCreate(l, parent, text)
    \/ \E l \in RequestLevels, id \in RowIds, text \in TextArgs :
            ManagerUpdate(l, id, text)
    \/ \E l \in RequestLevels, id \in RowIds : ManagerDelete(l, id)
    \/ \E l \in RequestLevels, id \in RowIds : GetById(l, id)
    \/ \E l \in RequestLevels, parent \in RowIds : ListByParent(l, parent)

SpecRequest == Init /\ [][NextRequest]_vars

\* The whole hierarchy: creates and deletes of the six managers, with ids
\* up to MaxStoreId in each table and at most MaxRows creates in all.
StoreIds == 1..MaxStoreId

StoreCreate(l, parent) ==
    /\ serial[l] <= MaxStoreId
    /\ Created(serial, Len(Endpoints)) < MaxRows
    /\ ManagerCreate(l, parent, "a")

NextStore ==
    \/ \E l \in Levels, parent \in {0} \cup StoreIds : StoreCreate(l, parent)
    \/ \E l \in Levels, id \in StoreIds : ManagerDelete(l, id)

SpecStore == Init /\ [][NextStore]_vars

\* The pages: rows come and go in the tables of levels 1..NavDepth, and
\* pages are run with or without a pick of the user.
NavLevels == 1..NavDepth
NavIds == 1..MaxNavRows
PickArgs == {NoneArg} \cup {<<l, id>> : l \in NavLevels, id \in NavIds}

NextNav ==
    \/ \E l \in NavLevels, parent \in {0} \cup NavIds : NavCreate(l, parent)
    \/ \E l \in NavLevels, id \in NavIds : NavDelete(l, id)
    \/ \E depth \in NavLevels, pick \in PickArgs : Render(depth, pick)

SpecNav == Init /\ [][NextNav]_vars

\* The update methods of the three managers with optional arguments, on
\* at most MaxFieldRows rows.
FieldIds == 1..MaxFieldRows

NextFields ==
    \/ \E tb \in DOMAIN Columns : FieldCreate(tb)
    \/ \E id \in FieldIds, content \in FieldArgs, links, seq \in OptFieldArgs :
        QuestionUpdate(id, content, links, seq)
    \/ \E id \in FieldIds, content \in FieldArgs, ai, metadata \in OptFieldArgs :
        AnswerUpdate(id, content, ai, metadata)
    \/ \E id \in FieldIds, dimension, score, comments, evaluator \in OptFieldArgs :
        EvaluationUpdate(id, dimension, score, comments, evaluator)

SpecFields == Init /\ [][NextFields]_vars

\* Two sessions, each running question operations one request at a time.
NextSessions ==
    \E s \in Sessions :
        \/ SessionCreateLookup(s)
        \/ \E arg \in {NoneArg} \cup {Some(n) : n \in PageSeqArgs} :
            SessionCreatePost(s, arg)
        \/ \E q \in 1..MaxQid, n \in PageSeqArgs : SessionUpdate(s, q, n)
        \/ \E q \in 1..MaxQid : SessionDeleteLookup(s, q)
        \/ SessionDelete(s)
        \/ SessionList(s)
        \/ SessionPatch(s)

SpecSessions == Init /\ [][NextSessions]_vars

----------------------------------------------------------------------------
\* Properties.

Count(qs, t) == Cardinality(ThreadIds(qs, t))

\* The sequence numbers of thread t are exactly 1..N, each held once.
Dense(qs, t) ==
    /\ {qs[i].seq : i \in ThreadIds(qs, t)} = 1..Count(qs, t)
    /\ \A a, b \in ThreadIds(qs, t) : a # b => qs[a].seq # qs[b].seq

\* Two questions of thread t whose numbers differed in `before` are in the
\* same relative order in `after`.
OrderKept(before, after, t) ==
    \A a, b \in ThreadIds(before, t) \cap DOMAIN after :
        before[a].seq < before[b].seq => after[a].seq < after[b].seq

\* The questions of the threads other than t are the same in both tables.
OthersSame(before, after, t) ==
    \A i \in (DOMAIN before \cup DOMAIN after) \ ThreadIds(before, t) :
        i \in DOMAIN before /\ i \in DOMAIN after /\ after[i] = before[i]

\* Thread t is numbered 1..N in creation (id) order.
InCreationOrder(qs, t) ==
    /\ Dense(qs, t)
    /\ \A a, b \in ThreadIds(qs, t) : a < b => qs[a].seq < qs[b].seq

\* The numbers of thread t are pairwise distinct and all at least 1.
DistinctPositive(qs, t) ==
    \A a, b \in ThreadIds(qs, t) :
        qs[a].seq >= 1 /\ (a # b => qs[a].seq # qs[b].seq)

\* C1: a reorder run in which every request succeeds leaves the same
\* questions in the thread, numbered exactly 1..N without gap or duplicate,
\* and keeps the relative order of any two whose numbers differed before;
\* the reorder pass at the end of a create, page update or delete in which
\* every request succeeds leaves the thread numbered 1..N as well.
C1_ReorderDense ==
    [][/\ (last'.op = "reorder" /\ last'.ok) =>
            /\ ThreadIds(questions', last'.thread) = ThreadIds(questions, last'.thread)
            /\ Dense(questions', last'.thread)
            /\ OrderKept(questions, questions', last'.thread)
       /\ (last'.reordered # 0 /\ last'.ok) => Dense(questions', last'.reordered)
      ]_vars

\* A successful reorder run that had to rewrite two numbers of a thread of three.
C1_Witness ==
    /\ last.op = "reorder" /\ last.ok /\ last.patches >= 2
    /\ Count(questions, last.thread) = 3

\* C2: a reorder run that directly follows a fully successful reorder pass on
\* the same thread issues no PATCH and leaves the table as it is.
C2_ReorderIdempotent ==
    [][(last'.op = "reorder" /\ last'.prior # NoneArg) =>
        (last'.patches = 0 /\ questions' = questions)]_vars

\* The second of two runs, the first of which rewrote two numbers.
C2_Witness ==
    /\ last.op = "reorder" /\ last.prior = Some(2) /\ last.patches = 0
    /\ Count(questions, last.thread) >= 2

\* C3: a delete of question q of thread t in which every request succeeds
\* leaves exactly the other questions, those of t numbered 1..N-1 in the
\* relative order they had.
C3_DeleteDense ==
    [][(last'.op = "delete" /\ last'.ok /\ last'.thread # 0) =>
        /\ last'.qid \in ThreadIds(questions, last'.thread)
        /\ DOMAIN questions' = DOMAIN questions \ {last'.qid}
        /\ Count(questions', last'.thread) = Count(questions, last'.thread) - 1
        /\ Dense(questions', last'.thread)
        /\ OrderKept(questions, questions', last'.thread)
        /\ OthersSame(questions, questions', last'.thread)]_vars

\* Q1, Q2, Q3 numbered 1, 2, 3: Q2 deleted, Q1 = 1 and Q3 = 2 remain.
C3_Witness ==
    /\ last.op = "delete" /\ last.ok /\ last.qid = 2 /\ last.patches = 1
    /\ DOMAIN questions = {1, 3}
    /\ questions[1] = [thread |-> 1, seq |-> 1]
    /\ questions[3] = [thread |-> 1, seq |-> 2]

\* C4: a create without sequence_number in which every request succeeds sends
\* the largest number of the thread plus one (1 for an empty thread); the new
\* question is then the last of its thread, and a thread numbered in creation
\* order stays so, the new question taking N+1.
C4_CreateAppends ==
    [][(last'.op = "create" /\ last'.auto /\ last'.ok) =>
        LET t == last'.thread
            n == last'.qid
        IN  /\ last'.posted =
                Some(IF ThreadIds(questions, t) = {} THEN 1
                     ELSE Max({questions[i].seq : i \in ThreadIds(questions, t)}) + 1)
            /\ n \notin DOMAIN questions
            /\ ThreadIds(questions', t) = ThreadIds(questions, t) \cup {n}
            /\ \A o \in ThreadIds(questions, t) :
                    questions'[o].seq < questions'[n].seq
            /\ InCreationOrder(questions, t) =>
                    /\ InCreationOrder(questions', t)
                    /\ questions'[n].seq = Count(questions, t) + 1]_vars

\* The third of three creates into an empty thread: numbered 1, 2, 3.
C4_Witness ==
    /\ last.op = "create" /\ last.auto /\ last.ok /\ last.posted = Some(3)
    /\ Count(questions, last.thread) = 3
    /\ InCreationOrder(questions, last.thread)

\* C5 (as claimed): of two questions that hold the same number, a successful
\* reorder run gives the smaller new number to the one created earlier.
C5_TiesByCreation ==
    [][(last'.op = "reorder" /\ last'.ok) =>
        \A a, b \in ThreadIds(questions, last'.thread) :
            (a < b /\ questions[a].seq = questions[b].seq)
                => questions'[a].seq < questions'[b].seq]_vars

\* C6: an operation that stored a question (create), that ran the page's
\* update, or that found the question to delete has run the reorder pass on
\* that question's thread by the time it returns.
C6_ReorderFollows ==
    ((last.op = "create" /\ last.qid # 0)
        \/ last.op = "page_update"
        \/ (last.op = "delete" /\ last.thread # 0))
    => (last.thread \in Threads /\ last.reordered = last.thread)

\* The page's update changed a number and the reorder pass that followed
\* rewrote one.
C6_Witness ==
    /\ last.op = "page_update" /\ last.reordered = last.thread
    /\ last.ok /\ last.patches >= 1

\* C7 (as claimed): the complete reorder run that follows a crashed one
\* yields 1..N with the questions in the relative order they had before the
\* crashed run.
C7_CrashRepairKeepsOrder ==
    (last.op = "reorder" /\ interrupted # NoInterrupt) =>
        /\ Dense(questions, interrupted.thread)
        /\ OrderKept(interrupted.before, questions, interrupted.thread)

\* C7 (amended): the complete reorder run that follows a crashed one yields
\* 1..N; the relative order before the crashed run is kept when the numbers
\* were then pairwise distinct and at least 1.
C7_CrashRepair ==
    (last.op = "reorder" /\ interrupted # NoInterrupt) =>
        /\ Dense(questions, interrupted.thread)
        /\ DistinctPositive(interrupted.before, interrupted.thread)
            => OrderKept(interrupted.before, questions, interrupted.thread)

\* A run over distinct positive numbers crashed after one PATCH and the next
\* run had a PATCH left to issue.
C7_Witness ==
    /\ last.op = "reorder" /\ interrupted # NoInterrupt
    /\ interrupted.done >= 1 /\ last.patches >= 1
    /\ DistinctPositive(interrupted.before, interrupted.thread)

\* The position of a dimension in the fixed set.
FixedPos(d) == CHOOSE i \in DOMAIN FixedDimensions : FixedDimensions[i] = d

\* C8 (as claimed): a create or update whose dimension is not one of the
\* seven fixed dimensions is rejected: no row is stored or changed.
C8_InvalidDimensionRejected ==
    [][(/\ elast'.op \in {"create", "update"}
        /\ elast'.dimension # NoneArg
        /\ elast'.dimension[1] \notin Range(FixedDimensions))
       => evaluations' = evaluations]_vars

\* C9: a create that returns an id has added exactly one row, with the
\* answer, dimension and score it was given, and changed no other; a
\* successful get_by_answer returns exactly the stored rows of the answer
\* with their dimension and score; and a stored row stays as it is over every
\* step other than an update or delete of it or the delete of its answer.
C9_CreateStoresRow ==
    [][/\ (elast'.op = "create" /\ elast'.id # 0) =>
            /\ elast'.id \notin DOMAIN evaluations
            /\ DOMAIN evaluations' = DOMAIN evaluations \cup {elast'.id}
            /\ \A i \in DOMAIN evaluations : evaluations'[i] = evaluations[i]
            /\ evaluations'[elast'.id] =
                    [answer |-> elast'.answer, dimension |-> elast'.dimension[1],
                     score |-> elast'.score[1]]
            /\ \A rows \in get_by_answer(evaluations', elast'.answer) :
                    \E k \in DOMAIN rows :
                        /\ rows[k].id = elast'.id
                        /\ rows[k].dimension = elast'.dimension[1]
                        /\ rows[k].score = elast'.score[1]
       /\ (elast'.op = "get_by_answer" /\ elast'.ok) =>
            /\ Range(elast'.result) =
                    {EvalRow(evaluations, i) : i \in AnswerEvals(evaluations, elast'.answer)}
            /\ Len(elast'.result) = Cardinality(AnswerEvals(evaluations, elast'.answer))
       /\ \A i \in DOMAIN evaluations :
            \/ i \in DOMAIN evaluations' /\ evaluations'[i] = evaluations[i]
            \/ elast'.op \in {"update", "delete"} /\ elast'.id = i
            \/ elast'.op = "answer_delete" /\ elast'.answer = evaluations[i].answer
      ]_vars

\* A second evaluation of an answer was created with score 7.
C9_Witness ==
    /\ elast.op = "create" /\ elast.id = 2 /\ elast.score = Some(7)
    /\ evaluations[2].score = 7
    /\ 1 \in DOMAIN evaluations /\ evaluations[1].answer = evaluations[2].answer

----------------------------------------------------------------------------
\* The REST helper and the managers.

\* C11: a PATCH or DELETE passed to supabase_request with params missing or
\* empty returns None, reports an error, sends no HTTP request, and leaves
\* every row of every table as it was.
C11_UnfilteredWriteRejected ==
    [][(/\ slast'.op = "request"
        /\ slast'.method \in {"patch", "delete"}
        /\ slast'.filter \in {"none", "empty"}) =>
            /\ slast'.ret = NoneArg
            /\ slast'.error
            /\ slast'.sent = 0
            /\ tables' = tables]_vars

\* A DELETE without filter was refused while the table it addressed held a row.
C11_Witness ==
    /\ slast.op = "request"
    /\ slast.method = "delete"
    /\ slast.filter = "empty"
    /\ slast.ret = NoneArg
    /\ tables[slast.level] # <<>>

C13_CreateReturnsId ==
    [][slast'.op = "create" =>
        LET l == slast'.level IN
        IF slast'.ok
        THEN /\ slast'.ret # NoneArg
             /\ slast'.ret[1] \notin DOMAIN tables[l]
             /\ DOMAIN tables'[l] = DOMAIN tables[l] \cup {slast'.ret[1]}
             /\ l > 1 => tables'[l][slast'.ret[1]].parent = slast'.id
             /\ \A k \in Levels : \A i \in DOMAIN tables[k] :
                    i \in DOMAIN tables'[k] /\ tables'[k][i] = tables[k][i]
        ELSE /\ slast'.ret = NoneArg
             /\ tables' = tables]_vars

\* A create of the child table returned the id of its new row.
C13_Witness ==
    /\ slast.op = "create"
    /\ slast.level > 1
    /\ slast.ret # NoneArg
    /\ slast.ret[1] \in DOMAIN tables[slast.level]

\* C14 (as claimed): of two calls of the same update or delete method, one
\* whose request succeeded and one whose request failed, the returned
\* values differ.
C14_ReturnTellsFailure ==
    [][(/\ slast'.op \in {"update", "delete"}
        /\ slast.op = slast'.op
        /\ slast.level = slast'.level
        /\ slast.ok # slast'.ok) =>
            slast.ret # slast'.ret]_vars

\* C15: a call of supabase_request sends at most one HTTP request, and a
\* manager method sends its write at most once, failed or not (create and
\* update send nothing else).
C15_NoRetry ==
    /\ slast.op = "request" => slast.sent <= 1
    /\ slast.op \in {"create", "update", "get_by_id", "list"} => slast.sent <= 1
    /\ slast.writes <= 1

\* The PATCH of an update failed, and it was the only request sent.
C15_Witness ==
    /\ slast.op = "update"
    /\ slast.error
    /\ slast.sent = 1
    /\ slast.writes = 1

\* The rows of the table of the last operation that match the id (get_by_id)
\* or the parent id (list) it was called with.
Matched ==
    IF slast.op = "get_by_id" THEN {slast.id} \cap DOMAIN tables[slast.level]
    ELSE {i \in DOMAIN tables[slast.level] : tables[slast.level][i].parent = slast.id}

\* C16: get_by_id and the list-by-parent methods raise nothing, and return
\* an empty frame when no row matches the id or parent id; when the request
\* succeeds the frame holds exactly the matching rows.
C16_NotFoundIsEmpty ==
    slast.op \in {"get_by_id", "list"} =>
        /\ ~slast.raised
        /\ slast.ret # NoneArg
        /\ Matched = {} => slast.ret = Some({})
        /\ slast.ok => slast.ret = Some(Matched)

\* A get_by_id for the id of a row that was deleted returned an empty frame.
C16_Witness ==
    /\ slast.op = "get_by_id"
    /\ slast.ok
    /\ slast.ret = Some({})
    /\ serial[slast.level] > slast.id

\* The ids, by level, of persona p and of every row beneath it.
RECURSIVE Beneath(_, _, _)
Beneath(tbs, l, ids) ==
    IF l = Len(Endpoints) THEN <<ids>>
    ELSE <<ids>> \o Beneath(tbs, l + 1,
                            {c \in DOMAIN tbs[l + 1] : tbs[l + 1][c].parent \in ids})

\* The frame get_by_persona, ..., get_by_answer (the list method of level l)
\* returns for a parent id when its request succeeds.
list_by_parent(tbs, srl, l, parent) ==
    frame(supabase_request(tbs, srl, "get", l, ByParent(parent), NoneArg, "ok").result).rows

\* C17: after PersonaManager.delete(p) succeeds, exactly p and the rows
\* beneath it are gone from the six tables, the list methods return no rows
\* for any id of the former subtree, and every other row is unchanged.
C17_PersonaCascade ==
    [][(slast'.op = "delete" /\ slast'.level = 1 /\ slast'.ok) =>
        LET sub == Beneath(tables, 1, {slast'.id} \cap DOMAIN tables[1]) IN
        /\ \A l \in Levels :
            /\ DOMAIN tables'[l] = DOMAIN tables[l] \ sub[l]
            /\ \A i \in DOMAIN tables'[l] : tables'[l][i] = tables[l][i]
        /\ \A l \in 2..Len(Endpoints) : \A x \in sub[l - 1] :
            list_by_parent(tables', serial', l, x) = {}]_vars

\* A persona was deleted together with a row of each of the five tables
\* beneath it, and another persona remains.
C17_Witness ==
    /\ slast.op = "delete"
    /\ slast.level = 1
    /\ slast.ok
    /\ slast.gone = Len(Endpoints)
    /\ tables[1] # <<>>
    /\ tables[Len(Endpoints)] = <<>>

\* C18 (as claimed): every operation that lists evaluations returns them in
\* ascending dimension name, the list of recorded dimensions included.
C18_ListsOrdered ==
    /\ elast.op = "get_by_answer" =>
        \A i, j \in DOMAIN elast.result :
            i < j => DimRank(elast.result[i].dimension) <= DimRank(elast.result[j].dimension)
    /\ elast.op = "get_dimensions_for_answer" =>
        \A i, j \in DOMAIN elast.result :
            i < j => DimRank(elast.result[i]) <= DimRank(elast.result[j])

\* The evaluations of answer a with dimension d.
SamePair(evs, a, d) == {i \in DOMAIN evs : evs[i].answer = a /\ evs[i].dimension = d}

\* C19: a create for an (answer, dimension) that already has an evaluation
\* is accepted like any other: it stores a further row under a new id and
\* leaves the earlier rows as they were, so the pair has two rows or more.
C19_DuplicatePairStored ==
    [][(/\ elast'.op = "create"
        /\ elast'.ok
        /\ SamePair(evaluations, elast'.answer, elast'.dimension[1]) # {}) =>
            /\ elast'.id \notin DOMAIN evaluations
            /\ DOMAIN evaluations' = DOMAIN evaluations \cup {elast'.id}
            /\ \A i \in DOMAIN evaluations : evaluations'[i] = evaluations[i]
            /\ SamePair(evaluations', elast'.answer, elast'.dimension[1])
                = SamePair(evaluations, elast'.answer, elast'.dimension[1])
                    \cup {elast'.id}]_vars

\* get_by_answer returned two rows with the same dimension.
C19_Witness ==
    /\ elast.op = "get_by_answer"
    /\ elast.ok
    /\ \E i, j \in DOMAIN elast.result :
        /\ i # j
        /\ elast.result[i].dimension = elast.result[j].dimension

\* C20: a reorder run acts on one listing of the thread in ascending
\* sequence_number: it issues one PATCH for each position i whose stored
\* number differs from i and none for the others, at most N in all; a row
\* at a position without PATCH keeps its number, a row at a position with
\* one has i when the PATCH succeeded and its old number when it failed.
\* When the listing request fails no PATCH is issued.
C20_OneUpdatePerPosition ==
    [][last'.op = "reorder" =>
        \/ /\ ~last'.ok
           /\ last'.patches = 0
           /\ questions' = questions
        \/ \E o \in get_by_thread(questions, last'.thread) :
            LET differs == {i \in 1..Len(o) : questions[o[i]].seq # i} IN
            /\ last'.patches = Cardinality(differs)
            /\ last'.patches <= Len(o)
            /\ DOMAIN questions' = DOMAIN questions
            /\ \A i \in 1..Len(o) :
                /\ i \notin differs => questions'[o[i]] = questions[o[i]]
                /\ questions'[o[i]].seq \in {i, questions[o[i]].seq}
                /\ last'.ok => questions'[o[i]].seq = i]_vars

\* A complete reorder run issued a PATCH for some positions of the thread
\* and none for the others.
C20_Witness ==
    /\ last.op = "reorder"
    /\ last.ok
    /\ last.patches >= 1
    /\ last.patches < Count(questions, last.thread)

----------------------------------------------------------------------------
\* The question sequencer, continued.

\* C21 (as claimed): when the thread is numbered 1..N, the page's update
\* sets the number of question q to k, 1 <= k <= N, and every request
\* succeeds, q is afterwards at position k and the thread is numbered 1..N.  (The record of the operation
\* names the thread and k; q is any question for which update(q, k) followed
\* by a successful reorder with as many PATCHes leads from the table before
\* to the table after.)
C21_PageMoveToK ==
    [][(last'.op = "page_update" /\ last'.ok) =>
        LET t == last'.thread
            k == last'.posted[1]
        IN \A q \in ThreadIds(questions, t) :
            (/\ Dense(questions, t)
             /\ k <= Count(questions, t)
             /\ \E out \in reorder(update_row(questions, q, Some(k)), t) :
                    /\ out.ok
                    /\ out.patches = last'.patches
                    /\ out.qs = questions')
            => /\ questions'[q].seq = k
               /\ Dense(questions', t)]_vars

\* C22: a create that added no row (its POST failed) returned None, ran no
\* reorder pass, and left every question as it was.
C22_FailedCreate ==
    [][(last'.op = "create" /\ DOMAIN questions' = DOMAIN questions) =>
        /\ last'.qid = 0
        /\ ~last'.ok
        /\ last'.reordered = 0
        /\ last'.patches = 0
        /\ questions' = questions
        /\ nextQid' = nextQid]_vars

\* A create failed on a thread whose numbers a reorder pass would have
\* rewritten.
C22_Witness ==
    /\ last.op = "create"
    /\ last.qid = 0
    /\ Count(questions, last.thread) >= 2
    /\ ~Dense(questions, last.thread)

\* C25: a reorder run on thread t, complete, partly failed or crashed,
\* keeps the set of questions and the thread of each, changes no question
\* of another thread, and leaves answers, evaluations and the tables of the
\* hierarchy as they are.
C25_ReorderFrame ==
    [][last'.op \in {"reorder", "reorder_crash"} =>
        /\ DOMAIN questions' = DOMAIN questions
        /\ \A i \in DOMAIN questions :
            /\ questions'[i].thread = questions[i].thread
            /\ questions[i].thread # last'.thread => questions'[i] = questions[i]
        /\ Count(questions', last'.thread) = Count(questions, last'.thread)
        /\ nextQid' = nextQid
        /\ answers' = answers
        /\ evaluations' = evaluations
        /\ tables' = tables]_vars

\* A reorder run rewrote a number of its thread while another thread held a
\* question whose number is not its position.
C25_Witness ==
    /\ last.op = "reorder"
    /\ last.patches >= 1
    /\ last.ok
    /\ \E i \in DOMAIN questions :
        /\ questions[i].thread # last.thread
        /\ questions[i].seq # 1

\* C27 (as claimed, here for a thread whose numbers are pairwise distinct
\* and at least 1): whichever of the PATCHes of a reorder run on thread t
\* fail, a following run in which every request succeeds yields 1..N with
\* the questions in the relative order they had before the first run.
C27_FailedRunRepaired ==
    \A t \in Threads :
        DistinctPositive(questions, t) =>
            \A first \in reorder(questions, t) :
                \A second \in reorder(first.qs, t) :
                    second.ok =>
                        /\ Dense(second.qs, t)
                        /\ OrderKept(questions, second.qs, t)

\* C28: a delete for an id that matches no question, or whose lookup
\* failed (no thread found), did not enter the branch that sends the DELETE
\* and runs the reorder pass, and left the questions as they were.
C28_DeleteOfMissing ==
    [][(last'.op = "delete"
        /\ (last'.qid \notin DOMAIN questions \/ last'.thread = 0)) =>
        /\ last'.thread = 0
        /\ last'.reordered = 0
        /\ last'.patches = 0
        /\ questions' = questions]_vars

\* The lookup of a delete failed for a stored question of a thread whose
\* numbers a reorder pass would have rewritten.
C28_Witness ==
    /\ last.op = "delete"
    /\ last.thread = 0
    /\ ~last.ok
    /\ last.qid \in DOMAIN questions
    /\ ~Dense(questions, questions[last.qid].thread)

----------------------------------------------------------------------------
\* The dropdowns of the pages.

\* The parent of level l in a run that selected the ids sel.
ParentAt(sel, l) == IF l = 1 THEN 0 ELSE sel[l - 1]

\* The rows the list of level l holds for a parent.
OptionsAt(tbs, l, parent) ==
    IF l = 1 THEN DOMAIN tbs[1]
    ELSE {id \in DOMAIN tbs[l] : tbs[l][id].parent = parent}

\* C24: in every run of a page, at each level that shows a dropdown, the
\* selected id is a row of the list of that level; where the user picked
\* nothing, a remembered id that is in the list is the one selected and
\* otherwise the first entry of the list is; and after the run the
\* remembered id of the level is the selected id.
C24_SelectionInList ==
    [][nlast'.op = "render" =>
        \A l \in DOMAIN nlast'.selected :
            LET id == nlast'.selected[l]
                parent == ParentAt(nlast'.selected, l)
                key == <<l, parent>>
                options == OptionsAt(tables, l, parent)
            IN /\ id \in options
               /\ nlast'.first[l] \in options
               /\ key \in DOMAIN session_state'
               /\ session_state'[key] = id
               /\ nlast'.pick # l =>
                    id = IF key \in DOMAIN session_state /\ session_state[key] \in options
                         THEN session_state[key]
                         ELSE nlast'.first[l]]_vars

\* A page was run on which a remembered id was no longer in its list (the
\* row was deleted) while the list held other rows below the first level.
C24_Witness ==
    /\ nlast.op = "render"
    /\ nlast.stale >= 1
    /\ nlast.pick = 0
    /\ Len(nlast.selected) >= 2
    /\ \E k \in DOMAIN session_state :
        k[1] = 1 /\ session_state[k] \in DOMAIN tables[1]

\* C29: a run of a page writes the remembered id of each level under the
\* key of the parent selected above it and changes no other remembered id;
\* and below the first level, where the user picked nothing and the id
\* remembered for the parent is still in the list, that id is selected.
C29_KeptPerParent ==
    [][nlast'.op = "render" =>
        LET sel == nlast'.selected
            written == {<<l, ParentAt(sel, l)>> : l \in DOMAIN sel}
        IN /\ DOMAIN session_state' = DOMAIN session_state \cup written
           /\ \A k \in DOMAIN session_state \ written :
                session_state'[k] = session_state[k]
           /\ \A l \in DOMAIN sel :
                /\ session_state'[<<l, ParentAt(sel, l)>>] = sel[l]
                /\ (/\ l > 1
                    /\ nlast'.pick # l
                    /\ <<l, sel[l - 1]>> \in DOMAIN session_state
                    /\ session_state[<<l, sel[l - 1]>>]
                            \in OptionsAt(tables, l, sel[l - 1]))
                   => sel[l] = session_state[<<l, sel[l - 1]>>]]_vars

\* The user went to another persona, under which the remembered category
\* (not the first of its list) came back, while a category is remembered
\* for a different persona too.
C29_Witness ==
    /\ nlast.op = "render"
    /\ nlast.pick = 1
    /\ Len(nlast.selected) >= 2
    /\ nlast.selected[2] # nlast.first[2]
    /\ \E k \in DOMAIN session_state :
        /\ k[1] = 2
        /\ k[2] # nlast.selected[1]
        /\ k[2] \in DOMAIN tables[1]
        /\ session_state[k] \in DOMAIN tables[2]

----------------------------------------------------------------------------
\* The update methods.

\* The optional arguments of the update of each manager, by column.
OptionalColumns ==
    [questions |-> {"reference_links", "sequence_number"},
     answers |-> {"is_ai_generated", "metadata"},
     evaluations |-> {"dimension", "score", "comments", "evaluator"}]

\* C23: an update of a question, an answer or an evaluation leaves every
\* column whose argument was None as it was in the row it addresses, and
\* leaves every other row of the three tables, and the set of rows, as
\* they were.
C23_PartialUpdate ==
    [][flast'.op = "update" =>
        \A tb \in DOMAIN Columns :
            /\ DOMAIN records'[tb] = DOMAIN records[tb]
            /\ \A i \in DOMAIN records[tb] :
                IF tb = flast'.table /\ i = flast'.id
                THEN \A c \in OptionalColumns[tb] \ flast'.given :
                        records'[tb][i][c] = records[tb][i][c]
                ELSE records'[tb][i] = records[tb][i]]_vars

\* An update that passed some optional argument and left another as None
\* was applied to a row in which the column left out holds a value an
\* earlier update wrote, next to another row of the same table.
C23_Witness ==
    /\ flast.op = "update"
    /\ flast.ok
    /\ flast.id \in DOMAIN records[flast.table]
    /\ flast.given \cap OptionalColumns[flast.table] # {}
    /\ \E c \in OptionalColumns[flast.table] \ flast.given :
        records[flast.table][flast.id][c] = 1
    /\ Cardinality(DOMAIN records[flast.table]) >= 2

----------------------------------------------------------------------------
\* Two sessions.

\* C26 (as claimed): whenever neither session is inside an operation, the
\* numbers of the thread are exactly 1..N.
C26_InterleavedDense ==
    (\A s \in Sessions : sessions[s].pc = "idle") => Dense(questions, SharedThread)

====
